---- MODULE Spec2Model ----
(***************************************************************************)
(* A model of transcode.py: the pipeline executor (run_pipeline), the      *)
(* per-file job (transcode) and the batch coordinator (transcode_release). *)
(*                                                                         *)
(* Five specifications share the module:                                   *)
(*   SpecClassify  the failure classification loop of transcode, applied   *)
(*                 to every list of per-stage results within the bounds;   *)
(*   SpecPipe      run_pipeline, its stage processes and their stderr      *)
(*                 pipes;                                                  *)
(*   Spec          transcode_release with its worker pool, jobs, stage     *)
(*                 processes and the output directory, on a source tree    *)
(*                 of up to MaxFiles files;                                *)
(*   SpecJob       the same steps on a tree of one file of any sample      *)
(*                 rate, sample size and channel count.                    *)
(*   SpecBounded   Spec with a scheduler that keeps the coordinator and    *)
(*                 the workers outside their tasks running, for the claim  *)
(*                 that the wait for the pool is bounded.                  *)
(* Each specification leaves the variables of the other parts at rest.     *)
(*                                                                         *)
(* The multiprocessing pool is modelled as CPython 3 implements it: the    *)
(* result of map_async is ready when every task has finished, and          *)
(* Pool.terminate sends SIGTERM to the workers that have not exited.       *)
(* SIGTERM has its default action in the stage processes, which are        *)
(* external programs: killpg ends the running ones of the group.           *)
(***************************************************************************)
EXTENDS Integers, Sequences, FiniteSets, TLC

VARIABLES
    cres,       \* classification: the (code, stderr) results handed to the loop
    cpc,        \* classification: position of transcode after run_pipeline
    cclass,     \* classification: what the loop decided
    pn,         \* run_pipeline: len(cmds)
    ppc,        \* run_pipeline: position of the caller
    pidx,       \* run_pipeline: index of the command or process the loop is at
    psig,       \* run_pipeline: disposition of SIGPIPE in the calling process
    pproc,      \* run_pipeline: the stage processes and their stderr pipes
    plast,      \* run_pipeline: last_stderr
    pres,       \* run_pipeline: results
    bassets,    \* release: the FLAC files of the source tree, as mutagen sees them
    bfmt,       \* release: output_format
    banc,       \* release: number of allow-listed other files in the source tree
    bnames,     \* release: the names of the FLAC files, without directory and extension
    bnw,        \* release: number of pool workers
    brun,       \* release: which call of transcode_release this is
    bprev,      \* release: how the call before this one ended
    fsAtStart,  \* release: the output directory as this call found it
    bpc,        \* release: position of transcode_release
    bexc,       \* release: the exception on its way out
    bret,       \* release: the value returned
    bcreated,   \* release: this call created transcode_dir
    bpool,      \* release: state of the pool
    bfirst,     \* release: the task whose failure the MapResult stored
    fs,         \* release: transcode_dir and its entries
    wk,         \* release: the pool workers
    job         \* release: the tasks, with the stage processes they started

cvars == <<cres, cpc, cclass>>

pvars == <<pn, ppc, pidx, psig, pproc, plast, pres>>

bvars == <<bassets, bnames, bfmt, banc, bnw, brun, bprev, fsAtStart, bpc, bexc, bret,
           bcreated, bpool, bfirst, fs, wk, job>>

vars == <<cvars, pvars, bvars>>

\* what the steps of one part of the model leave alone
restOfClassify == <<pvars, bvars>>
restOfPipe == <<cvars, bvars>>
restOfRelease == <<cvars, pvars>>

-----------------------------------------------------------------------------
(* Program constants and bounds *)

\* signal.SIGPIPE
SIGPIPE == 13

\* longest list of stage results the classification is applied to
MaxStages == 3

\* the exit codes a stage is given: clean, two ordinary failures, killed by SIGPIPE
ExitCodes == {0, 1, 2, -SIGPIPE}

\* captured error texts
ErrTexts == {"errA", "errB"}

StageResult == [code : ExitCodes, stderr : ErrTexts]

None == "None"

\* the value of cclass before the loop has run
NoClass == [kind |-> "none", exc |-> None, msg |-> None]

\* bytes a stderr pipe holds before a write to it blocks
PipeCap == 2

\* most bytes a stage writes to its stderr
MaxErr == 3

-----------------------------------------------------------------------------
(* transcode: the check for problems after run_pipeline (lines 211-224) *)

RECURSIVE ClassifyLastWins(_, _, _, _)
\* a loop that keeps going after a definitive failure and reports the last one
ClassifyLastWins(results, i, last_sigpipe, last_fail) ==
    IF i > Len(results)
    THEN IF last_fail # None
         THEN [kind |-> "raise", exc |-> "TranscodeException", msg |-> last_fail]
         ELSE IF last_sigpipe # 0
              THEN [kind |-> "raise", exc |-> "TranscodeException", msg |-> "SIGPIPE"]
              ELSE [kind |-> "ok", exc |-> None, msg |-> None]
    ELSE IF results[i].code # 0
         THEN IF results[i].code = -SIGPIPE
              THEN ClassifyLastWins(results, i + 1, i, last_fail)
              ELSE ClassifyLastWins(results, i + 1, last_sigpipe, results[i].stderr)
         ELSE ClassifyLastWins(results, i + 1, last_sigpipe, last_fail)

RECURSIVE ClassifyDropSigpipe(_, _, _)
\* a loop that forgets the SIGPIPE it has seen
ClassifyDropSigpipe(results, i, last_sigpipe) ==
    IF i > Len(results)
    THEN [kind |-> "ok", exc |-> None, msg |-> None]
    ELSE IF results[i].code # 0 /\ results[i].code # -SIGPIPE
         THEN [kind |-> "raise", exc |-> "TranscodeException", msg |-> results[i].stderr]
         ELSE ClassifyDropSigpipe(results, i + 1, last_sigpipe)

RECURSIVE ClassifyFrom(_, _, _)
\* the for loop from its i-th iteration on, last_sigpipe being the index of
\* the last stage seen with -SIGPIPE (0 when last_sigpipe is None)
ClassifyFrom(results, i, last_sigpipe) ==
    IF i > Len(results)
    THEN IF last_sigpipe # 0
         THEN [kind |-> "raise", exc |-> "TranscodeException", msg |-> "SIGPIPE"]
         ELSE [kind |-> "ok", exc |-> None, msg |-> None]
    ELSE IF results[i].code # 0
         THEN IF results[i].code = -SIGPIPE
              THEN ClassifyFrom(results, i + 1, i)
              ELSE [kind |-> "raise", exc |-> "TranscodeException",
                    msg |-> results[i].stderr]
         ELSE ClassifyFrom(results, i + 1, last_sigpipe)

\* zip(commands, results) stops at the shorter list
Zip(ncommands, results) ==
    IF ncommands < Len(results) THEN SubSeq(results, 1, ncommands) ELSE results

ClassifyLast(ncommands, results) == ClassifyLastWins(Zip(ncommands, results), 1, 0, None)

Classify(ncommands, results) == ClassifyFrom(Zip(ncommands, results), 1, 0)

-----------------------------------------------------------------------------
(* SpecClassify: the classification on every bounded list of results *)

ResultLists == UNION {[1..n -> StageResult] : n \in 1..MaxStages}

InitClassifyVars ==
    /\ cres \in ResultLists
    /\ cpc = "results"
    /\ cclass = NoClass

RestClassifyVars ==
    /\ cres = <<>>
    /\ cpc = "off"
    /\ cclass = NoClass

\* lines 215-224: the loop raises, or falls through to the tag copy
CheckProblems ==
    /\ cpc = "results"
    /\ LET c == Classify(Len(cres), cres) IN
        /\ cclass' = c
        /\ cpc' = IF c.kind = "ok" THEN "copy_tags" ELSE "raised"
    /\ UNCHANGED <<cres, restOfClassify>>

\* lines 226-231: tags are copied and checked; a failed check raises
TagsChecked ==
    /\ cpc = "copy_tags"
    /\ \E ok \in BOOLEAN : cpc' = IF ok THEN "returned" ELSE "raised_tagcheck"
    /\ UNCHANGED <<cres, cclass, restOfClassify>>

NextClassify == CheckProblems \/ TagsChecked

-----------------------------------------------------------------------------
(* run_pipeline (lines 46-75) and the stage processes it spawns *)

\* a command that has not been started
NoProc == [st |-> "unspawned", code |-> 0, errLeft |-> 0, errPipe |-> 0,
           errOut |-> 0, reaped |-> FALSE, eof |-> FALSE]

InitPipeVars ==
    /\ pn \in 1..MaxStages
    /\ ppc = "start"
    /\ pidx = 1
    /\ psig = "SIG_IGN"
    /\ pproc = [i \in 1..pn |-> NoProc]
    /\ plast = 0
    /\ pres = <<>>

RestPipeVars ==
    /\ pn = 0
    /\ ppc = "off"
    /\ pidx = 0
    /\ psig = "SIG_IGN"
    /\ pproc = <<>>
    /\ plast = 0
    /\ pres = <<>>

\* procs[:-1], the processes the result loop waits for (line 69)
WaitedAll(n) == 1..n

Waited(n) == 1..(n - 1)

\* line 50: SIGPIPE gets its default action for the children to inherit
SetSigpipe ==
    /\ ppc = "start"
    /\ psig' = "SIG_DFL"
    /\ ppc' = "spawn"
    /\ UNCHANGED <<pn, pidx, pproc, plast, pres, restOfPipe>>

\* lines 55-64: one iteration of the spawn loop, Popen succeeding; the process
\* starts with some amount of text it is going to write to stderr; after the
\* last command the finally clause restores the SIGPIPE handler
Spawn ==
    /\ ppc = "spawn"
    /\ pidx <= pn
    /\ \E e \in 0..MaxErr :
        pproc' = [pproc EXCEPT ![pidx] = [NoProc EXCEPT !.st = "running", !.errLeft = e]]
    /\ pidx' = pidx + 1
    /\ IF pidx = pn
       THEN ppc' = "communicate" /\ psig' = "SIG_IGN"
       ELSE UNCHANGED <<ppc, psig>>
    /\ UNCHANGED <<pn, plast, pres, restOfPipe>>

\* line 56 raising (the program cannot be started): the finally clause runs
\* and the exception leaves run_pipeline
SpawnFails ==
    /\ ppc = "spawn"
    /\ pidx <= pn
    /\ psig' = "SIG_IGN"
    /\ ppc' = "raised"
    /\ UNCHANGED <<pn, pidx, pproc, plast, pres, restOfPipe>>

\* a stage writes a byte to its stderr pipe; the write blocks on a full pipe
StageWritesErr(i) ==
    /\ pproc[i].st = "running"
    /\ pproc[i].errLeft > 0
    /\ pproc[i].errPipe < PipeCap
    /\ pproc' = [pproc EXCEPT ![i].errLeft = @ - 1, ![i].errPipe = @ + 1,
                                ![i].errOut = @ + 1]
    /\ UNCHANGED <<pn, ppc, pidx, psig, plast, pres, restOfPipe>>

\* a stage exits once it has written what it had to say: cleanly when it is
\* the first stage or has read its input to the end, with a failure at any
\* time, by SIGPIPE when the stage reading its output is gone
StageExits(i) ==
    /\ pproc[i].st = "running"
    /\ pproc[i].errLeft = 0
    /\ \E c \in ExitCodes :
        /\ IF c = 0 THEN (IF i = 1 THEN TRUE ELSE pproc[i - 1].st = "exited")
           ELSE IF c = -SIGPIPE
                THEN (IF i < pn THEN pproc[i + 1].st = "exited" ELSE FALSE)
                ELSE TRUE
        /\ pproc' = [pproc EXCEPT ![i].st = "exited", ![i].code = c]
    /\ UNCHANGED <<pn, ppc, pidx, psig, plast, pres, restOfPipe>>

\* line 66, communicate() reading: the last process's stderr is read while
\* the caller waits for it
CommunicateReads ==
    /\ ppc = "communicate"
    /\ pproc[pn].errPipe > 0
    /\ plast' = plast + pproc[pn].errPipe
    /\ pproc' = [pproc EXCEPT ![pn].errPipe = 0]
    /\ UNCHANGED <<pn, ppc, pidx, psig, pres, restOfPipe>>

\* line 66, communicate() returning: the last process has exited and its
\* stderr is at end of file
CommunicateReturns ==
    /\ ppc = "communicate"
    /\ pproc[pn].st = "exited"
    /\ pproc[pn].errPipe = 0
    /\ pproc' = [pproc EXCEPT ![pn].reaped = TRUE, ![pn].eof = TRUE]
    /\ ppc' = "wait"
    /\ pidx' = 1
    /\ UNCHANGED <<pn, psig, plast, pres, restOfPipe>>

\* lines 69-73: wait() for the next earlier process, which returns once it
\* has exited, then read its stderr to the end
WaitAndRead ==
    /\ ppc = "wait"
    /\ pidx \in Waited(pn)
    /\ pproc[pidx].st = "exited"
    /\ pres' = Append(pres, [code |-> pproc[pidx].code, stderr |-> pproc[pidx].errPipe])
    /\ pproc' = [pproc EXCEPT ![pidx].reaped = TRUE, ![pidx].eof = TRUE,
                                ![pidx].errPipe = 0]
    /\ pidx' = pidx + 1
    /\ UNCHANGED <<pn, ppc, psig, plast, restOfPipe>>

\* lines 74-75: the last process's result is appended and the list returned
ReturnResults ==
    /\ ppc = "wait"
    /\ pidx \notin Waited(pn)
    /\ pres' = Append(pres, [code |-> pproc[pn].code, stderr |-> plast])
    /\ ppc' = "returned"
    /\ UNCHANGED <<pn, pidx, psig, pproc, plast, restOfPipe>>

NextPipe ==
    \/ SetSigpipe
    \/ Spawn
    \/ SpawnFails
    \/ \E i \in 1..pn : StageWritesErr(i)
    \/ \E i \in 1..pn : StageExits(i)
    \/ CommunicateReads
    \/ CommunicateReturns
    \/ WaitAndRead
    \/ ReturnResults

-----------------------------------------------------------------------------
(* The source tree, the output profiles and the plan of one job *)

\* the keys of encoders (lines 21-26)
Formats == {"320", "V0", "V2", "FLAC"}

\* encoders[output_format]['enc']
Enc(output_format) == IF output_format = "FLAC" THEN "flac" ELSE "lame"

\* the two rates a release is resampled to (lines 181-184)
Rate44 == 44100
Rate48 == 48000

\* above this rate or this sample size a file is resampled (line 175)
MaxPlainRate == 48000
MaxPlainBits == 16

\* most channels transcode accepts (line 188)
MaxChannels == 2

\* what mutagen reports for a FLAC file, and whether the file lies in a
\* subdirectory of flac_dir
Rates == {22050, 44100, 48000, 64000, 88200, 96000, 176400, 192000, 192001}
Assets == [rate : Rates, bits : {16, 24}, channels : {1, 2, 6}, sub : BOOLEAN]

\* the sample rate is not looked at
ResampleBitsOnly(a) == a.bits > MaxPlainBits

\* line 175
Resample(a) == a.rate > MaxPlainRate \/ a.bits > MaxPlainBits

\* lines 178-186; None when the rate is a multiple of neither
NeededSampleRate(a) ==
    IF a.rate % Rate44 = 0 THEN "44100"
    ELSE IF a.rate % Rate48 = 0 THEN "48000"
    ELSE None

\* the rate is looked at whether or not the file is resampled
PlanErrorAlwaysRate(a) ==
    IF NeededSampleRate(a) = None THEN "UnknownSampleRateException"
    ELSE IF a.channels > MaxChannels THEN "TranscodeDownmixException"
    ELSE None

\* the channel check left out
PlanErrorNoChannels(a) ==
    IF Resample(a) /\ NeededSampleRate(a) = None THEN "UnknownSampleRateException"
    ELSE None

\* lines 180-189: the exception transcode raises before it plans, None if none
PlanError(a) ==
    IF Resample(a) /\ NeededSampleRate(a) = None THEN "UnknownSampleRateException"
    ELSE IF a.channels > MaxChannels THEN "TranscodeDownmixException"
    ELSE None

\* the plan without the special case of line 157
transcode_commands_piped(output_format, resample) ==
    <<IF resample THEN "sox_to_wav" ELSE "flac_decode",
      IF Enc(output_format) = "lame" THEN "lame_encode" ELSE "flac_encode">>

\* transcode_commands (lines 128-161): the commands of the pipeline, by role
transcode_commands(output_format, resample) ==
    IF output_format = "FLAC" /\ resample
    THEN <<"sox_to_file">>
    ELSE <<IF resample THEN "sox_to_wav" ELSE "flac_decode",
           IF Enc(output_format) = "lame" THEN "lame_encode" ELSE "flac_encode">>

-----------------------------------------------------------------------------
(* transcode_release (lines 266-355), its pool and the output directory *)

\* signal.SIGTERM
SIGTERM == 15

\* most FLAC files in the source tree
MaxFiles == 2

\* most pool workers (max_threads)
MaxWorkers == 2

\* most allow-listed ancillary files in the source tree
MaxAnc == 1

\* most consecutive calls of transcode_release with the same arguments
MaxRuns == 2

NoFs == [exists |-> FALSE, owner |-> 0, files |-> {}]

\* a directory at the computed path that some other run has filled
ForeignFs == [exists |-> TRUE, owner |-> 0, files |-> {<<"foreign", 0>>}]

\* the characters the output name may not contain (the class of line 193)
Forbidden == {"?", "<", ">", "\\", "*", "|", "\""}

\* file names are the letter t and one more character: the i-th file of a tree
\* takes the i-th of these punctuation characters, or the i-th of these digits
Punctuation == <<"?", "*", "<", ">", "|">>
Digits == <<"1", "2", "3", "4", "5">>

\* encoders[output_format]['ext']
Ext(output_format) == IF output_format = "FLAC" THEN ".flac" ELSE ".mp3"

\* re.sub of line 193: every forbidden character becomes an underscore
Sanitize(basename) ==
    [k \in DOMAIN basename |-> IF basename[k] \in Forbidden THEN "_" ELSE basename[k]]

NoFile == [sub |-> FALSE, base |-> <<>>, ext |-> None]

\* lines 191-195 with the output_dir of line 329: the directory of the source
\* file mirrored under transcode_dir, the sanitized name, the extension of the
\* profile
TranscodeFile(asset, name, output_format) ==
    [sub |-> asset.sub, base |-> Sanitize(name), ext |-> Ext(output_format)]

NoJob == [st |-> "unsent", pc |-> "none", exc |-> None, procs |-> <<>>,
          madedir |-> FALSE, resample |-> FALSE, rate |-> None, file |-> NoFile,
          cmds |-> <<>>]

NoWorker == [st |-> "none", leader |-> FALSE, handler |-> FALSE,
             sigterm |-> FALSE, job |-> 0]

NoPrev == [outcome |-> None, ret |-> None]

\* needs_resampling (lines 108-113): is_24bit over the FLAC files of the tree
needs_resampling(assets) == \E i \in 1..Len(assets) : assets[i].bits > MaxPlainBits

\* the directory is emptied but not removed
RmTreeKeepsRoot(f) == [f EXCEPT !.files = {}]

\* shutil.rmtree(transcode_dir), line 354
RmTree(f) == NoFs

\* the files the batch specification puts in the source tree: a CD-quality
\* file, a 24-bit 96 kHz file in a subdirectory, a 5.1 file
BatchAssets ==
    {[rate |-> 44100, bits |-> 16, channels |-> 2, sub |-> FALSE],
     [rate |-> 96000, bits |-> 24, channels |-> 2, sub |-> TRUE],
     [rate |-> 48000, bits |-> 16, channels |-> 6, sub |-> FALSE]}

\* the profiles the batch specification is run with: the lossless one and one
\* of the three lame ones, which differ in their options only
BatchFormats == {"FLAC", "V0"}

\* the state in which transcode_release is called for the first time
InitRelease(assetSet, fileCounts, workerCounts, formats, namings) ==
    /\ bassets \in UNION {[1..n -> assetSet] : n \in fileCounts}
    /\ bnames \in {[i \in 1..Len(bassets) |-> <<"t", marks[i]>>] : marks \in namings}
    /\ bfmt \in formats
    /\ banc \in 0..MaxAnc
    /\ bnw \in workerCounts
    /\ fs \in {NoFs, ForeignFs}
    /\ fsAtStart = fs
    /\ brun = 1
    /\ bprev = NoPrev
    /\ bpc = "start"
    /\ bexc = None
    /\ bret = None
    /\ bcreated = FALSE
    /\ bpool = "none"
    /\ bfirst = 0
    /\ wk = [w \in 1..bnw |-> NoWorker]
    /\ job = [j \in 1..Len(bassets) |-> NoJob]

RestReleaseVars ==
    /\ bassets = <<>>
    /\ bnames = <<>>
    /\ bfmt = "FLAC"
    /\ banc = 0
    /\ bnw = 0
    /\ fs = NoFs
    /\ fsAtStart = NoFs
    /\ brun = 0
    /\ bprev = NoPrev
    /\ bpc = "off"
    /\ bexc = None
    /\ bret = None
    /\ bcreated = FALSE
    /\ bpool = "none"
    /\ bfirst = 0
    /\ wk = <<>>
    /\ job = <<>>

Files == 1..Len(bassets)
Workers == 1..bnw

\* the arguments of the call and what the call does not write
args == <<bassets, bnames, bfmt, banc, bnw, brun, bprev, fsAtStart>>

\* lines 270-283: no encode is necessary for FLAC without resampling
Start ==
    /\ bpc = "start"
    /\ IF bfmt = "FLAC" /\ ~needs_resampling(bassets)
       THEN bpc' = "returned" /\ bret' = "flac_dir"
       ELSE bpc' = "check" /\ bret' = bret
    /\ UNCHANGED <<args, bexc, bcreated, bpool, bfirst, fs, wk, job, restOfRelease>>

\* the existence of the directory is not looked at
CheckDirIgnored ==
    /\ bpc = "check"
    /\ bpc' = "makedirs"
    /\ UNCHANGED <<args, bexc, bret, bcreated, bpool, bfirst, fs, wk, job, restOfRelease>>

\* lines 292-297: os.path.exists(transcode_dir), transcode_dir being the one
\* path get_transcode_dir computes from the arguments
CheckDir ==
    /\ bpc = "check"
    /\ IF fs.exists
       THEN bpc' = "returned" /\ bret' = "transcode_dir"
       ELSE bpc' = "makedirs" /\ bret' = bret
    /\ UNCHANGED <<args, bexc, bcreated, bpool, bfirst, fs, wk, job, restOfRelease>>

\* another invocation creates the directory between the check of line 294
\* and the makedirs of line 295
ForeignCreates ==
    /\ bpc = "makedirs"
    /\ ~fs.exists
    /\ fs' = ForeignFs
    /\ UNCHANGED <<args, bpc, bexc, bret, bcreated, bpool, bfirst, wk, job, restOfRelease>>

\* the directory is created inside the try block, so that a failure to create
\* it reaches the cleanup
MakeDirsInsideTry ==
    /\ bpc = "makedirs"
    /\ IF fs.exists
       THEN /\ bpc' = "rmtree"
            /\ bexc' = "FileExistsError"
            /\ UNCHANGED <<fs, bcreated>>
       ELSE /\ bpc' = "pool"
            /\ fs' = [exists |-> TRUE, owner |-> brun, files |-> {}]
            /\ bcreated' = TRUE
            /\ bexc' = bexc
    /\ UNCHANGED <<args, bret, bpool, bfirst, wk, job, restOfRelease>>

\* line 295: os.makedirs(transcode_dir), which raises when the directory is
\* there; the call is outside the try block
MakeDirs ==
    /\ bpc = "makedirs"
    /\ IF fs.exists
       THEN /\ bpc' = "raised"
            /\ bexc' = "FileExistsError"
            /\ UNCHANGED <<fs, bcreated>>
       ELSE /\ bpc' = "pool"
            /\ fs' = [exists |-> TRUE, owner |-> brun, files |-> {}]
            /\ bcreated' = TRUE
            /\ bexc' = bexc
    /\ UNCHANGED <<args, bret, bpool, bfirst, wk, job, restOfRelease>>

\* lines 327-329: the pool forks its workers and map_async queues one task
\* per FLAC file (with at most 4 * workers files the chunk size is 1)
StartPool ==
    /\ bpc = "pool"
    /\ bpool' = "open"
    /\ wk' = [w \in Workers |-> [NoWorker EXCEPT !.st = "starting"]]
    /\ job' = [j \in Files |-> [NoJob EXCEPT !.st = "queued"]]
    /\ bpc' = "get"
    /\ UNCHANGED <<args, bexc, bret, bcreated, bfirst, fs, restOfRelease>>

AllDone == \A j \in Files : job[j].st \in {"ok", "failed"}

\* no worker is sent a signal
TerminatedNobody(workers) == workers

\* SIGTERM is sent to every worker that has not exited (Pool.terminate)
Terminated(workers) ==
    [w \in DOMAIN workers |->
        IF workers[w].st = "exited" THEN workers[w]
        ELSE [workers[w] EXCEPT !.sigterm = TRUE]]

\* line 330-331: result.get() returns once every task has succeeded, and
\* the pool is closed
GetReturns ==
    /\ bpc = "get"
    /\ \A j \in Files : job[j].st = "ok"
    /\ bpool' = "closed"
    /\ bpc' = "join"
    /\ UNCHANGED <<args, bexc, bret, bcreated, bfirst, fs, wk, job, restOfRelease>>

\* lines 330-334: result.get() raises the first failure stored, which
\* MapResult hands over only once every task has finished; the except
\* clause terminates the pool
GetRaises ==
    /\ bpc = "get"
    /\ AllDone
    /\ \E j \in Files : job[j].st = "failed"
    /\ bexc' = job[bfirst].exc
    /\ bpool' = "terminated"
    /\ wk' = Terminated(wk)
    /\ bpc' = "join"
    /\ UNCHANGED <<args, bret, bcreated, bfirst, fs, job, restOfRelease>>

\* lines 330-334: result.get(60 * 60 * 12) gives up on tasks that have not
\* finished; the except clause terminates the pool
GetTimesOut ==
    /\ bpc = "get"
    /\ ~AllDone
    /\ bexc' = "TimeoutError"
    /\ bpool' = "terminated"
    /\ wk' = Terminated(wk)
    /\ bpc' = "join"
    /\ UNCHANGED <<args, bret, bcreated, bfirst, fs, job, restOfRelease>>

\* line 336: pool.join() returns when every worker process has exited; an
\* exception on its way out reaches the cleanup of lines 349-355
JoinReturns ==
    /\ bpc = "join"
    /\ \A w \in Workers : wk[w].st = "exited"
    /\ bpc' = IF bexc = None THEN "copy" ELSE "rmtree"
    /\ UNCHANGED <<args, bexc, bret, bcreated, bpool, bfirst, fs, wk, job, restOfRelease>>

AncEntries(n) == {<<"anc", k>> : k \in 1..n}

\* lines 339-347: every allow-listed file is copied and the directory returned
CopyAncillary ==
    /\ bpc = "copy"
    /\ fs' = [fs EXCEPT !.files = @ \cup AncEntries(banc)]
    /\ bpc' = "returned"
    /\ bret' = "transcode_dir"
    /\ UNCHANGED <<args, bexc, bcreated, bpool, bfirst, wk, job, restOfRelease>>

\* lines 341-345 raising at one of the files, the ones before it copied
CopyFails ==
    /\ bpc = "copy"
    /\ \E k \in 1..banc :
        fs' = [fs EXCEPT !.files = @ \cup AncEntries(k - 1)]
    /\ bexc' = "OSError"
    /\ bpc' = "rmtree"
    /\ UNCHANGED <<args, bret, bcreated, bpool, bfirst, wk, job, restOfRelease>>

\* lines 349-355: the directory is removed and the exception raised again
Cleanup ==
    /\ bpc = "rmtree"
    /\ fs' = RmTree(fs)
    /\ bpc' = "raised"
    /\ UNCHANGED <<args, bexc, bret, bcreated, bpool, bfirst, wk, job, restOfRelease>>

\* transcode_release is called again with the same arguments
Reinvoke ==
    /\ bpc \in {"returned", "raised"}
    /\ brun < MaxRuns
    /\ brun' = brun + 1
    /\ bprev' = [outcome |-> bpc, ret |-> bret]
    /\ fsAtStart' = fs
    /\ bpc' = "start"
    /\ bexc' = None
    /\ bret' = None
    /\ bcreated' = FALSE
    /\ bpool' = "none"
    /\ bfirst' = 0
    /\ wk' = [w \in Workers |-> NoWorker]
    /\ job' = [j \in Files |-> NoJob]
    /\ UNCHANGED <<bassets, bnames, bfmt, banc, bnw, fs, restOfRelease>>

-----------------------------------------------------------------------------
(* The pool workers (pool_initializer, lines 305-314) and transcode
   (lines 167-231) running in them *)

\* the exit codes a stage of a job is given
JobExitCodes == {0, 1, -SIGPIPE}

\* the process group of worker w: its own once it has called setsid, the
\* coordinator's (0) before
Pgid(w) == IF wk[w].leader THEN w ELSE 0

\* the handler exits without signalling anyone else
SignalledGroupNone(w) == -1

\* lines 311-312: os.killpg(os.getpgid(0), signal.SIGTERM)
SignalledGroup(w) == Pgid(w)

\* lines 306-314: setsid, then the SIGTERM handler is installed
WorkerInit(w) ==
    /\ wk[w].st = "starting"
    /\ wk' = [wk EXCEPT ![w] = [@ EXCEPT !.st = "idle", !.leader = TRUE,
                                         !.handler = TRUE]]
    /\ UNCHANGED <<args, bpc, bexc, bret, bcreated, bpool, bfirst, fs, job, restOfRelease>>

Queued == {j \in Files : job[j].st = "queued"}

\* an idle worker takes the next task off the queue; once the pool is
\* terminated the coordinator drains the queue and no task gets out
TakeJob(w) ==
    /\ wk[w].st = "idle"
    /\ bpool = "open"
    /\ Queued # {}
    /\ LET j == CHOOSE q \in Queued : \A r \in Queued : q <= r IN
        /\ job' = [job EXCEPT ![j] = [@ EXCEPT !.st = "running", !.pc = "inspect"]]
        /\ wk' = [wk EXCEPT ![w] = [@ EXCEPT !.st = "busy", !.job = j]]
    /\ UNCHANGED <<args, bpc, bexc, bret, bcreated, bpool, bfirst, fs, restOfRelease>>

\* worker w is inside transcode for its job, at position p; a worker that has
\* been sent SIGTERM runs its handler before anything else
At(w, p) == wk[w].st = "busy" /\ ~wk[w].sigterm /\ job[wk[w].job].pc = p

\* transcode raises e, leaving the stage processes left: the worker reports
\* the failure and is idle again; the coordinator keeps the first failure
\* reported
JobFails(w, e, left) ==
    /\ job' = [job EXCEPT ![wk[w].job] = [@ EXCEPT !.st = "failed", !.pc = "done",
                                                   !.exc = e, !.procs = left]]
    /\ wk' = [wk EXCEPT ![w] = [@ EXCEPT !.st = "idle", !.job = 0]]
    /\ bfirst' = IF bfirst = 0 THEN wk[w].job ELSE bfirst

\* lines 172-189: the metadata is read, resample and needed_sample_rate are
\* set and unsupported files are refused
Inspect(w) ==
    /\ At(w, "inspect")
    /\ LET j == wk[w].job
           a == bassets[j]
           e == PlanError(a)
           seen == [job[j] EXCEPT !.resample = Resample(a),
                                  !.rate = IF Resample(a) THEN NeededSampleRate(a)
                                           ELSE None] IN
        IF e # None
        THEN /\ job' = [job EXCEPT ![j] = [seen EXCEPT !.st = "failed", !.pc = "done",
                                                       !.exc = e]]
             /\ wk' = [wk EXCEPT ![w] = [@ EXCEPT !.st = "idle", !.job = 0]]
             /\ bfirst' = IF bfirst = 0 THEN j ELSE bfirst
        ELSE /\ job' = [job EXCEPT ![j] = [seen EXCEPT !.pc = "mkdirs"]]
             /\ UNCHANGED <<wk, bfirst>>
    /\ UNCHANGED <<args, bpc, bexc, bret, bcreated, bpool, fs, restOfRelease>>

SubDir == <<"dir", 0>>

\* lines 191-208: the output name is computed, the directory of the output
\* file is created when it is not there, the commands are planned
MakeOutputDir(w) ==
    /\ At(w, "mkdirs")
    /\ LET j == wk[w].job
           create == bassets[j].sub /\ SubDir \notin fs.files IN
        /\ fs' = IF create THEN [fs EXCEPT !.files = @ \cup {SubDir}] ELSE fs
        /\ job' = [job EXCEPT ![j] =
                   [@ EXCEPT !.pc = "spawn", !.madedir = create,
                             !.file = TranscodeFile(bassets[j], bnames[j], bfmt),
                             !.cmds = transcode_commands(bfmt, job[j].resample)]]
    /\ UNCHANGED <<args, bpc, bexc, bret, bcreated, bpool, bfirst, wk, restOfRelease>>

\* commands, the list of line 208
Commands(j) == job[j].cmds

\* run_pipeline, line 56: the next command is started, in the worker's
\* process group
SpawnStage(w) ==
    /\ At(w, "spawn")
    /\ LET j == wk[w].job
           p == [st |-> "running", code |-> 0, by |-> w, grp |-> Pgid(w)] IN
        job' = [job EXCEPT ![j] =
                   [@ EXCEPT !.procs = Append(@, p),
                             !.pc = IF Len(job[j].procs) + 1 = Len(Commands(j))
                                    THEN "communicate" ELSE "spawn"]]
    /\ UNCHANGED <<args, bpc, bexc, bret, bcreated, bpool, bfirst, fs, wk, restOfRelease>>

\* run_pipeline, line 56 raising: the exception leaves transcode, the
\* processes started before stay behind
SpawnStageFails(w) ==
    /\ At(w, "spawn")
    /\ JobFails(w, "OSError", job[wk[w].job].procs)
    /\ UNCHANGED <<args, bpc, bexc, bret, bcreated, bpool, fs, restOfRelease>>

\* whether stage k of job j may exit with code c (as in StageExits)
MayExit(j, k, c) ==
    IF c = 0 THEN (IF k = 1 THEN TRUE ELSE job[j].procs[k - 1].st = "exited")
    ELSE IF c = -SIGPIPE
         THEN (IF k < Len(job[j].procs) THEN job[j].procs[k + 1].st = "exited" ELSE FALSE)
         ELSE TRUE

\* a stage process of job j exits; the last command of the plan is the one
\* that writes the output file: it has written it when it exits cleanly, and
\* may have left a partial file when it fails
ProcExits(j, k) ==
    /\ job[j].procs[k].st = "running"
    /\ \E c \in JobExitCodes :
        /\ MayExit(j, k, c)
        /\ job' = [job EXCEPT ![j].procs[k] = [@ EXCEPT !.st = "exited", !.code = c]]
        /\ IF k = Len(Commands(j)) /\ fs.exists
           THEN \E written \in (IF c = 0 THEN {TRUE} ELSE BOOLEAN) :
                    fs' = IF written THEN [fs EXCEPT !.files = @ \cup {<<"out", job[j].file>>}]
                          ELSE fs
           ELSE fs' = fs
    /\ UNCHANGED <<args, bpc, bexc, bret, bcreated, bpool, bfirst, wk, restOfRelease>>

\* the results run_pipeline returns for job j
JobResults(j) ==
    [k \in 1..Len(job[j].procs) |-> [code |-> job[j].procs[k].code, stderr |-> "errA"]]

\* lines 209-224: run_pipeline returns when every stage has exited and been
\* waited for, which leaves no process of the job, and the results are
\* checked for problems
CollectResults(w) ==
    /\ At(w, "communicate")
    /\ LET j == wk[w].job IN
        /\ \A k \in 1..Len(job[j].procs) : job[j].procs[k].st = "exited"
        /\ IF Classify(Len(Commands(j)), JobResults(j)).kind = "raise"
           THEN JobFails(w, "TranscodeException", <<>>)
           ELSE /\ job' = [job EXCEPT ![j] = [@ EXCEPT !.pc = "tags", !.procs = <<>>]]
                /\ UNCHANGED <<wk, bfirst>>
    /\ UNCHANGED <<args, bpc, bexc, bret, bcreated, bpool, fs, restOfRelease>>

\* lines 226-231: the tags are copied and checked
CopyTags(w) ==
    /\ At(w, "tags")
    /\ \E ok \in BOOLEAN :
        IF ok
        THEN /\ job' = [job EXCEPT ![wk[w].job] = [@ EXCEPT !.st = "ok", !.pc = "done"]]
             /\ wk' = [wk EXCEPT ![w] = [@ EXCEPT !.st = "idle", !.job = 0]]
             /\ bfirst' = bfirst
        ELSE JobFails(w, "TranscodeException", <<>>)
    /\ UNCHANGED <<args, bpc, bexc, bret, bcreated, bpool, fs, restOfRelease>>

\* what SIGTERM to process group g does to stage process p: a running
\* process of the group is killed
Killpg(p, g) ==
    IF p.st = "running" /\ p.grp = g
    THEN [p EXCEPT !.st = "exited", !.code = -SIGTERM]
    ELSE p

Survives(p, w, g) == p.by # w \/ Killpg(p, g).st = "running"

\* the stage processes left when worker w has signalled group g and exited:
\* its children that are dead are gone with it, the others run on
WithoutWorker(jobs, w, g) ==
    [j \in DOMAIN jobs |->
        [jobs[j] EXCEPT !.procs = SelectSeq(@, LAMBDA p : Survives(p, w, g))]]

\* the task a worker was running when it exited is never finished
Abandon(jobs, j) ==
    IF j = 0 THEN jobs ELSE [jobs EXCEPT ![j].st = "aborted"]

\* a worker receives the SIGTERM of Pool.terminate: sigterm_handler (lines
\* 307-313) signals the worker's process group and exits; a worker that has
\* not installed the handler yet is killed by the signal
WorkerSigterm(w) ==
    /\ wk[w].sigterm
    /\ wk[w].st \in {"starting", "idle", "busy"}
    /\ job' = IF wk[w].handler
              THEN Abandon(WithoutWorker(job, w, SignalledGroup(w)), wk[w].job)
              ELSE job
    /\ wk' = [wk EXCEPT ![w] = [NoWorker EXCEPT !.st = "exited"]]
    /\ UNCHANGED <<args, bpc, bexc, bret, bcreated, bpool, bfirst, fs, restOfRelease>>

\* after pool.close() an idle worker finds the queue closed and exits
WorkerExits(w) ==
    /\ bpool = "closed"
    /\ wk[w].st = "idle"
    /\ wk' = [wk EXCEPT ![w] = [NoWorker EXCEPT !.st = "exited"]]
    /\ UNCHANGED <<args, bpc, bexc, bret, bcreated, bpool, bfirst, fs, job, restOfRelease>>

NextRelease ==
    \/ Start
    \/ CheckDir
    \/ ForeignCreates
    \/ MakeDirs
    \/ StartPool
    \/ GetReturns
    \/ GetRaises
    \/ GetTimesOut
    \/ JoinReturns
    \/ CopyAncillary
    \/ CopyFails
    \/ Cleanup
    \/ Reinvoke
    \/ \E w \in Workers : WorkerInit(w)
    \/ \E w \in Workers : TakeJob(w)
    \/ \E w \in Workers : Inspect(w)
    \/ \E w \in Workers : MakeOutputDir(w)
    \/ \E w \in Workers : SpawnStage(w)
    \/ \E w \in Workers : SpawnStageFails(w)
    \/ \E j \in Files : \E k \in 1..Len(job[j].procs) : ProcExits(j, k)
    \/ \E w \in Workers : CollectResults(w)
    \/ \E w \in Workers : CopyTags(w)
    \/ \E w \in Workers : WorkerSigterm(w)
    \/ \E w \in Workers : WorkerExits(w)

-----------------------------------------------------------------------------
(* The specifications *)

InitClassify == InitClassifyVars /\ RestPipeVars /\ RestReleaseVars

SpecClassify == InitClassify /\ [][NextClassify]_vars

InitPipe == InitPipeVars /\ RestClassifyVars /\ RestReleaseVars

SpecPipe == InitPipe /\ [][NextPipe]_vars

\* a release of up to MaxFiles files transcoded by MaxWorkers workers
InitBatch ==
    InitRelease(BatchAssets, 0..MaxFiles, {MaxWorkers}, BatchFormats, {Punctuation, Digits}) /\ RestClassifyVars /\ RestPipeVars

Spec == InitBatch /\ [][NextRelease]_vars

\* a release of one file, of any kind, transcoded by one worker
InitJob == InitRelease(Assets, {1}, {1}, Formats, {Punctuation}) /\ RestClassifyVars /\ RestPipeVars

SpecJob == InitJob /\ [][NextRelease]_vars

\* the steps of the coordinator, which runs on until it returns or raises; the
\* timeout of result.get() passes
Coordinator ==
    \/ Start
    \/ CheckDir
    \/ MakeDirs
    \/ StartPool
    \/ GetReturns
    \/ GetRaises
    \/ GetTimesOut
    \/ JoinReturns
    \/ CopyAncillary
    \/ CopyFails
    \/ Cleanup

\* the steps of a pool worker outside its task: it starts up, it runs its
\* SIGTERM handler, it exits when the pool is closed
WorkerLifecycle == \E w \in Workers : WorkerInit(w) \/ WorkerSigterm(w) \/ WorkerExits(w)

\* the batch with a scheduler that keeps the coordinator and the workers
\* outside their tasks running; a task and its stage processes may stop for
\* good at any point
SpecBounded ==
    InitBatch /\ [][NextRelease]_vars /\ WF_vars(Coordinator \/ WorkerLifecycle)

-----------------------------------------------------------------------------
(* Claims about the classification *)

Definitive(r) == r.code # 0 /\ r.code # -SIGPIPE

HasDefinitive(results) == \E i \in 1..Len(results) : Definitive(results[i])

HasSigpipe(results) == \E i \in 1..Len(results) : results[i].code = -SIGPIPE

AllClean(results) == \A i \in 1..Len(results) : results[i].code = 0

EarliestDefinitive(results) ==
    CHOOSE i \in 1..Len(results) :
        Definitive(results[i]) /\ \A j \in 1..(i - 1) : ~Definitive(results[j])

\* C2: when some stage has a non-zero exit code other than -SIGPIPE, transcode
\* raises with the captured error text of the earliest such stage, whatever
\* stages before or after it exited with -SIGPIPE.
C2_DefinitiveCauseFirst ==
    (cpc \notin {"off", "results"} /\ HasDefinitive(cres)) =>
        /\ cpc = "raised"
        /\ cclass.kind = "raise"
        /\ cclass.exc = "TranscodeException"
        /\ cclass.msg = cres[EarliestDefinitive(cres)].stderr

\* a SIGPIPE stage, then a definitive failure, then a later failure with another text
C2_Witness ==
    /\ cpc = "raised"
    /\ Len(cres) = 3
    /\ cres[1].code = -SIGPIPE
    /\ cres[2].code = 1 /\ cres[2].stderr = "errA"
    /\ cres[3].code = 2 /\ cres[3].stderr = "errB"
    /\ cclass.msg = "errA"

\* C3: the pipeline counts as succeeded (the tag copy is reached) exactly when
\* every exit code is 0; with no definitive failure and at least one -SIGPIPE
\* the job raises the broken-pipe failure.
C3_OutcomeByExitCodes ==
    cpc \notin {"off", "results"} =>
        /\ (cpc \in {"copy_tags", "returned", "raised_tagcheck"}) <=> AllClean(cres)
        /\ (~HasDefinitive(cres) /\ HasSigpipe(cres)) =>
                /\ cpc = "raised"
                /\ cclass = [kind |-> "raise", exc |-> "TranscodeException",
                             msg |-> "SIGPIPE"]

\* only broken pipes: a clean last stage behind a stage killed by SIGPIPE
C3_Witness ==
    /\ cpc = "raised"
    /\ Len(cres) = 2
    /\ cres[1].code = -SIGPIPE
    /\ cres[2].code = 0
    /\ cclass.msg = "SIGPIPE"

-----------------------------------------------------------------------------
(* Claims about run_pipeline *)

\* C4: run_pipeline returns one (exit code, stderr) result per command, the
\* i-th being the exit code of the i-th process and what that process wrote to
\* its stderr, whichever stages failed and in whatever order they exited.
C4_OneResultPerStage ==
    ppc = "returned" =>
        /\ Len(pres) = pn
        /\ \A i \in 1..pn :
            /\ pres[i].code = pproc[i].code
            /\ pres[i].stderr = pproc[i].errOut

\* three stages that wrote different amounts: the middle one failed first, the
\* first was then killed by SIGPIPE and the last read its input to the end
C4_Witness ==
    /\ ppc = "returned"
    /\ pn = 3
    /\ pres[1] = [code |-> -SIGPIPE, stderr |-> 1]
    /\ pres[2] = [code |-> 1, stderr |-> 2]
    /\ pres[3] = [code |-> 0, stderr |-> 3]

\* C5: run_pipeline never gets stuck: until it has returned or raised, the
\* caller or one of the stage processes can take a step (every stage would
\* exit if its stderr were read).
C5_NoDeadlock == ppc \in {"off", "returned", "raised"} \/ ENABLED NextPipe

-----------------------------------------------------------------------------
(* Claims about transcode_release *)

\* C1: a call that created its output directory and raises (a job failed, the
\* wait timed out or the copy of the other files failed) leaves no output
\* directory behind.
C1_AllOrNothing == (bpc = "raised" /\ bcreated) => ~fs.exists

\* a failed call in which one job had succeeded and written its file
C1_Witness ==
    /\ bpc = "raised"
    /\ bcreated
    /\ \E j \in Files : job[j].st = "ok"
    /\ \E j \in Files : job[j].st = "failed"

\* C6: as soon as a job has failed the coordinator can cancel the batch, without
\* waiting for the other jobs; the directory is deleted only with an exception
\* pending, the pool terminated and every worker exited.
C6_CancelOnFirstFailure ==
    /\ (bpc = "get" /\ \E j \in Files : job[j].st = "failed") => ENABLED GetRaises
    /\ bpc = "rmtree" =>
            /\ bexc # None
            /\ \A w \in Workers : wk[w].st = "exited"

\* the part of C6 about the order of join and delete, which the code keeps
C6_DeleteAfterJoin ==
    bpc = "rmtree" => (bexc # None /\ \A w \in Workers : wk[w].st = "exited")

StageProcs == {<<j, k>> \in Files \X (1..MaxStages) : k <= Len(job[j].procs)}

\* C7: every stage process is in the process group of the worker that started
\* it, and once a terminated pool has been joined no stage process is running.
C7_NoOrphans ==
    /\ \A jk \in StageProcs : job[jk[1]].procs[jk[2]].grp = job[jk[1]].procs[jk[2]].by
    /\ (bpool = "terminated" /\ bpc # "join") =>
            \A jk \in StageProcs : job[jk[1]].procs[jk[2]].st # "running"

\* a batch cancelled while a job had its whole pipeline running
C7_Witness ==
    /\ bpool = "terminated"
    /\ bpc = "rmtree"
    /\ \E j \in Files : job[j].st = "aborted" /\ job[j].pc = "communicate"

\* no encode is needed: the call returns flac_dir before it computes a directory
NoEncodeNeeded == bfmt = "FLAC" /\ \A i \in Files : bassets[i].bits <= 16

Untouched ==
    /\ fs = fsAtStart
    /\ bpool = "none"
    /\ \A w \in Workers : wk[w].st = "none"
    /\ \A j \in Files : job[j].st = "unsent"

\* C8: a call that finds its output directory in place returns its path without
\* a pool, a job or a change to the directory; a call after a successful one
\* with the same arguments returns what that one returned and changes nothing.
C8_ShortCircuit ==
    /\ (fsAtStart.exists /\ ~NoEncodeNeeded /\ bpc \notin {"off", "start", "check"}) =>
            /\ bpc = "returned"
            /\ bret = "transcode_dir"
            /\ Untouched
    /\ (brun > 1 /\ bprev.outcome = "returned") =>
            /\ Untouched
            /\ bpc \in {"start", "check", "returned"}
            /\ bpc = "returned" => bret = bprev.ret

\* the second call after a first one that transcoded a file
C8_Witness ==
    /\ brun = 2
    /\ bpc = "returned"
    /\ bprev = [outcome |-> "returned", ret |-> "transcode_dir"]
    /\ fs.owner = 1
    /\ \E j \in Files : <<"out", TranscodeFile(bassets[j], bnames[j], bfmt)>> \in fs.files

-----------------------------------------------------------------------------
(* Claims about the planning checks of transcode *)

\* the job has got past the checks of lines 172-189
Inspected(j) == job[j].st \in {"running", "ok", "failed", "aborted"} /\ job[j].pc # "inspect"

ResamplingRequired(a) == a.bits > 16 \/ a.rate > 48000

OddRate(a) == a.rate % 44100 # 0 /\ a.rate % 48000 # 0

\* C9 as stated: a job for a file of more than 2 channels fails with
\* TranscodeDownmixException, whatever its rate and sample size, and starts no
\* stage process.
C9_DownmixWhateverRate ==
    \A j \in Files :
        (bassets[j].channels > 2 /\ Inspected(j)) =>
            /\ job[j].st = "failed"
            /\ job[j].exc = "TranscodeDownmixException"
            /\ job[j].procs = <<>>

\* C9 amended: such a job fails without starting a stage process, with
\* TranscodeDownmixException unless the file needs resampling from a rate that
\* is a multiple of neither 44100 nor 48000, which is reported instead.
C9_DownmixUnlessOddRate ==
    \A j \in Files :
        (bassets[j].channels > 2 /\ Inspected(j)) =>
            /\ job[j].st = "failed"
            /\ job[j].exc = IF ResamplingRequired(bassets[j]) /\ OddRate(bassets[j])
                             THEN "UnknownSampleRateException"
                             ELSE "TranscodeDownmixException"
            /\ job[j].procs = <<>>

\* a 24-bit 96 kHz 5.1 file refused for its channels, for the lossless profile
C9_Witness ==
    /\ bfmt = "FLAC"
    /\ bassets[1] = [rate |-> 96000, bits |-> 24, channels |-> 6, sub |-> TRUE]
    /\ job[1].st = "failed"
    /\ job[1].exc = "TranscodeDownmixException"

\* C10: a job for a file that needs resampling from a rate that is a multiple
\* of neither 44100 nor 48000 fails with UnknownSampleRateException, having
\* created no directory or file and started no stage process; a file that needs
\* no resampling never fails with that exception.
C10_UnknownRate ==
    \A j \in Files :
        Inspected(j) =>
            /\ (ResamplingRequired(bassets[j]) /\ OddRate(bassets[j])) =>
                    /\ job[j].st = "failed"
                    /\ job[j].exc = "UnknownSampleRateException"
                    /\ job[j].procs = <<>>
                    /\ ~job[j].madedir
                    /\ fs.files = {}
            /\ ~ResamplingRequired(bassets[j]) =>
                    job[j].exc # "UnknownSampleRateException"

\* a 16-bit file at 192001 Hz, in a subdirectory, refused
C10_Witness ==
    /\ bassets[1] = [rate |-> 192001, bits |-> 16, channels |-> 2, sub |-> TRUE]
    /\ job[1].st = "failed"
    /\ job[1].exc = "UnknownSampleRateException"
    /\ fs.exists

\* C11: resample is set exactly when the file has more than 16 bits per sample
\* or a rate above 48000; needed_sample_rate is then 44100 for a multiple of
\* 44100 and otherwise 48000 for a multiple of 48000.
C11_ResamplePlan ==
    \A j \in Files :
        Inspected(j) =>
            /\ job[j].resample <=> ResamplingRequired(bassets[j])
            /\ (job[j].resample /\ bassets[j].rate % 44100 = 0) => job[j].rate = "44100"
            /\ (job[j].resample /\ bassets[j].rate % 44100 # 0
                    /\ bassets[j].rate % 48000 = 0) => job[j].rate = "48000"

\* a 16-bit file at 176400 Hz planned for resampling to 44100
C11_Witness ==
    /\ bassets[1].rate = 176400
    /\ bassets[1].bits = 16
    /\ job[1].pc = "spawn"
    /\ job[1].resample
    /\ job[1].rate = "44100"

-----------------------------------------------------------------------------
(* Claims about the output files *)

\* the jobs that have computed their transcode_file
Named == {j \in Files : job[j].file # NoFile}

\* C12: any two distinct FLAC files of the tree are given distinct output file
\* paths, so that no two jobs write the same file.
C12_DisjointOutputs ==
    \A i \in Named : \A j \in Named : i # j => job[i].file # job[j].file

\* the part of C12 the code keeps: files whose names stay distinct once
\* sanitized, or that lie in different directories, get distinct paths
C12_DisjointUnlessClash ==
    \A i \in Named : \A j \in Named :
        (i # j /\ (Sanitize(bnames[i]) # Sanitize(bnames[j])
                        \/ bassets[i].sub # bassets[j].sub)) =>
            job[i].file # job[j].file

AudioOutputs == {e \in fs.files : e[1] = "out"}

\* C13: when every job has succeeded, the directory transcode_release returns
\* holds as many audio files as the tree has FLAC files, and every allow-listed
\* other file of the tree.
C13_CompleteOnSuccess ==
    (bpc = "returned" /\ bcreated) =>
        /\ Cardinality(AudioOutputs) = Len(bassets)
        /\ AncEntries(banc) \subseteq fs.files

\* the part of C13 the code keeps: one audio file per distinct output path,
\* and every allow-listed other file
C13_CompletePerPath ==
    (bpc = "returned" /\ bcreated) =>
        /\ AudioOutputs = {<<"out", TranscodeFile(bassets[j], bnames[j], bfmt)>> : j \in Files}
        /\ AncEntries(banc) \subseteq fs.files

\* C14: a call of transcode that has returned has left its output file, and a
\* call that has raised has left none.
C14_OneFileOrNone ==
    \A j \in Files :
        (job[j].pc = "done" /\ fs.exists) =>
            /\ job[j].st = "ok" => <<"out", job[j].file>> \in fs.files
            /\ job[j].st = "failed" => AudioOutputs = {}

\* the part of C14 the code keeps: a call that has returned has left its file,
\* and a call that raised before it started a process has left none
C14_FileWhenReturned ==
    \A j \in Files :
        (job[j].pc = "done" /\ fs.exists) =>
            /\ job[j].st = "ok" => AudioOutputs = {<<"out", job[j].file>>}
            /\ (job[j].st = "failed" /\ job[j].cmds = <<>>) => AudioOutputs = {}

-----------------------------------------------------------------------------
(* Claims about the plan *)

\* what C15 says of the commands planned for a profile and a resample flag
PlanShape(output_format, resample, commands) ==
    /\ Len(commands) = 1 <=> (output_format = "FLAC" /\ resample)
    /\ Len(commands) # 1 =>
            /\ Len(commands) = 2
            /\ commands[1] = IF resample THEN "sox_to_wav" ELSE "flac_decode"
            /\ commands[2] = IF output_format = "FLAC" THEN "flac_encode"
                              ELSE "lame_encode"

\* C15: transcode_commands yields a single command exactly for the lossless
\* profile with resampling, and otherwise two commands: the decoder (the one
\* that also resamples when resampling is required) and the profile's encoder.
\* This holds of the function for every profile and flag, and of the commands
\* every job has planned.
C15_PlanShape ==
    /\ \A f \in Formats : \A r \in BOOLEAN : PlanShape(f, r, transcode_commands(f, r))
    /\ \A j \in Files :
            job[j].cmds # <<>> => PlanShape(bfmt, job[j].resample, job[j].cmds)

\* a lossless batch in which one file got the single command and another the
\* decoder and the flac encoder
C15_Witness ==
    /\ bfmt = "FLAC"
    /\ Len(bassets) = 2
    /\ job[1].cmds = <<"flac_decode", "flac_encode">>
    /\ job[2].cmds = <<"sox_to_file">>

\* C16: for the lossless profile, no commands are planned and no stage process
\* is started for a file that needs no resampling, whatever else is in the tree.
C16_PassThroughPerFile ==
    \A j \in Files :
        (bfmt = "FLAC" /\ ~ResamplingRequired(bassets[j])) =>
            /\ job[j].cmds = <<>>
            /\ job[j].procs = <<>>

\* the part of C16 the code keeps: for the lossless profile and a tree without
\* a file of more than 16 bits, no job is run at all
C16_PassThroughPerTree ==
    (bfmt = "FLAC" /\ \A i \in Files : bassets[i].bits <= 16) =>
        \A j \in Files : job[j] = NoJob

-----------------------------------------------------------------------------
(* Claims about the processes run_pipeline leaves *)

Spawned == {i \in 1..pn : pproc[i].st # "unspawned"}

\* C18: when run_pipeline returns or raises, every process it has started has
\* been waited for and has had its stderr read to the end.
C18_AllReaped ==
    ppc \in {"returned", "raised"} =>
        \A i \in Spawned : pproc[i].reaped /\ pproc[i].eof

\* the part of C18 the code keeps: it holds when run_pipeline returns
C18_AllReapedOnReturn ==
    ppc = "returned" =>
        /\ Spawned = 1..pn
        /\ \A i \in Spawned : pproc[i].reaped /\ pproc[i].eof

-----------------------------------------------------------------------------
(* Claims about the wait for the pool and the cleanup *)

Called == bpc \notin {"off", "returned", "raised"}

C19_DeleteOnlyOwn ==
    /\ bpc = "rmtree" => (bcreated /\ fs.exists /\ fs.owner = brun)
    /\ (fsAtStart.exists \/ bexc = "FileExistsError" \/ bret = "flac_dir") =>
            /\ ~bcreated
            /\ bpc # "rmtree"
            /\ fs \in {fsAtStart, ForeignFs}
            /\ fsAtStart.exists => fs = fsAtStart

\* a call that lost the race between its check and its makedirs: it has raised
\* and the directory of the other invocation is in place
C19_Witness ==
    /\ bpc = "raised"
    /\ bexc = "FileExistsError"
    /\ ~fsAtStart.exists
    /\ fs = ForeignFs

PassedThrough == bfmt = "FLAC" /\ bpc = "returned" /\ bret = "flac_dir"

\* C20: transcode_release returns flac_dir for the pass-through only if no
\* FLAC file of the tree requires resampling by the rule of transcode (more
\* than 16 bits per sample or a rate above 48000).
C20_DecisionsAgree ==
    PassedThrough => \A i \in Files : ~ResamplingRequired(bassets[i])

\* the part of C20 the code keeps: a tree passed through has no file of more
\* than 16 bits per sample
C20_NoPassThroughFor24Bit ==
    PassedThrough => \A i \in Files : bassets[i].bits <= 16

====
